---- MODULE Spec2Model ----
(***************************************************************************)
(* The WebSocketProvider of frontend/src/context/WebSocketContext.tsx as a *)
(* state machine: the React state and refs of the provider, the browser    *)
(* WebSocket objects it creates with their timers, and one action per      *)
(* public operation, transport event handler and timer callback.           *)
(*                                                                         *)
(* Texts are sequences of segments (concatenation is \o, the empty string  *)
(* is <<>>); a nullable value is <<>> (null) or <<v>>.  Identifiers        *)
(* (owner, repo) are run-length encoded: a sequence of runs [c, n].        *)
(*                                                                         *)
(* Scheduling is the browser's: every handler runs to completion, with the *)
(* promise reactions it triggers, before the next one starts.  A failed    *)
(* connection fires error and then close in one task, which closeDue       *)
(* models.  The public operations are called through the closures of the   *)
(* current render (their socket is the committed state); the connect of a  *)
(* reconnect timer is the closure that created the closed transport.       *)
(***************************************************************************)
EXTENDS Integers, Sequences, FiniteSets, TLC

\* ---------------------------------------------------------------- bounds
\* Transports that exist at once (records of closed, unreferenced
\* transports are reused), per scope of inputs.
MaxTransportsConn == 2
MaxTransportsErrors == 1
\* Cap of the reconnect counter in the guards of the model.
AttemptBound == 4
\* Segments the stream buffer may hold.
MaxStream == 2

\* ------------------------------------------------------ program constants
MAX_MESSAGE_LENGTH == 10000
MaxParamLength == 100
ReconnectCap == 3
BackoffBaseMs == 1000
ConnectTimeoutMs == 60000
PingIntervalMs == 240000

\* ------------------------------------------------------------------ texts
None == <<>>
Some(v) == <<v>>
IsNull(o) == o = <<>>

Lower == {"a","b","c","d","e","f","g","h","i","j","k","l","m",
          "n","o","p","q","r","s","t","u","v","w","x","y","z"}
Upper == {"A","B","C","D","E","F","G","H","I","J","K","L","M",
          "N","O","P","Q","R","S","T","U","V","W","X","Y","Z"}
Digit == {"0","1","2","3","4","5","6","7","8","9"}

RECURSIVE RunLen(_)
RunLen(s) == IF s = <<>> THEN 0 ELSE Head(s).n + RunLen(Tail(s))

\* /^[a-zA-Z0-9_.-]+$/.test(s)
SAFE_PARAM_REGEX(s) ==
    /\ RunLen(s) >= 1
    /\ \A i \in 1..Len(s) : s[i].c \in Lower \cup Upper \cup Digit \cup {"_", ".", "-"}

\* a slice that keeps the whole text
TakeAll(s, n) == s

\* message.slice(0, n) on a run-length encoded text
RECURSIVE Take(_, _)
Take(s, n) ==
    IF s = <<>> \/ n <= 0 THEN <<>>
    ELSE IF Head(s).n <= n THEN <<Head(s)>> \o Take(Tail(s), n - Head(s).n)
    ELSE << [c |-> Head(s).c, n |-> n] >>

\* the literal 'ping'
Ping == << [c |-> "p", n |-> 1], [c |-> "i", n |-> 1],
          [c |-> "n", n |-> 1], [c |-> "g", n |-> 1] >>

Pow2(n) == IF n = 0 THEN 1 ELSE IF n = 1 THEN 2 ELSE IF n = 2 THEN 4
           ELSE IF n = 3 THEN 8 ELSE IF n = 4 THEN 16 ELSE 32

\* a backoff that grows by one second per attempt instead of doubling
ReconnectDelayLinear(attempt) == (attempt + 1) * BackoffBaseMs

\* Math.pow(2, attempt) * 1000
ReconnectDelay(attempt) == Pow2(attempt) * BackoffBaseMs

\* ----------------------------------------------------------------- frames
ConnectionFatal == { <<"error:repo_too_large">>, <<"error:repo_not_found">>,
                     <<"error:repo_private">>, <<"error:repo_not_installed">>,
                     <<"error:rate_limited">>, <<"error:server_busy">> }

ChatRecoverable == { <<"error:timeout">>, <<"error:keys_exhausted">>,
                     <<"error:generation_failed">>, <<"error:retrieval_failed">> }

StartsWith(data, prefix) == Len(data) >= 1 /\ data[1] = prefix
Slice1(data) == Tail(data)

\* statusMap[status] || status
StatusText(status) ==
    IF status = <<"cloning">> THEN <<"Fetching repository...">>
    ELSE IF status = <<"chunking">> THEN <<"Analyzing code structure...">>
    ELSE IF status = <<"indexing">> THEN <<"Building knowledge base...">>
    ELSE IF status = <<"searching">> THEN <<"Searching codebase...">>
    ELSE IF status = <<"thinking">> THEN <<"Generating response...">>
    ELSE status

\* a parse that never throws and hands back the text it was given
JsonParseLenient(body) == [ok |-> TRUE, array |-> TRUE, value |-> body]

\* JSON.parse of the remainder of a metadata: / suggestions: frame, on the
\* literals the model feeds: [ok, array, value].
JsonParse(body) ==
    IF body = <<"{\"language\":\"ts\"}">>
        THEN [ok |-> TRUE, array |-> FALSE, value |-> <<"language=ts">>]
    ELSE IF body = <<"[\"q1\",\"q2\"]">>
        THEN [ok |-> TRUE, array |-> TRUE, value |-> <<"q1", "q2">>]
    ELSE IF body = <<"[]">>
        THEN [ok |-> TRUE, array |-> TRUE, value |-> <<>>]
    ELSE IF body = <<"42">>
        THEN [ok |-> TRUE, array |-> FALSE, value |-> <<"42">>]
    ELSE [ok |-> FALSE, array |-> FALSE, value |-> <<>>]

\* ------------------------------------------------------------------ state
VARIABLES
    ws,                   \* the WebSocket objects created: id -> record
    socket,               \* useState socket: 0 (null) or a transport id
    isConnected, isProcessing, lastMessage, suggestions, repoMetadata,
    isReconnecting, statusMessage, streamingContent, isStreaming, errorMessage,
    connectingRef,        \* re-entrancy guard
    pingIntervalRef,      \* 0 or the transport whose onopen set the interval
    intentionalCloseRef,
    reconnectAttemptsRef,
    reconnectTimeoutRef,  \* 0 or the transport whose onclose set the timer
    connParamsRef,        \* None or Some([owner, repo, githubToken])
    closeDue,             \* 0, or the transport whose close event ends the task
    last,                 \* the step just taken: [op, ws, arg]
    sent,                 \* the frames transmitted by the step just taken
    scope                 \* which inputs the environment draws from

session == <<isConnected, isProcessing, lastMessage, suggestions, repoMetadata,
             isReconnecting, statusMessage, streamingContent, isStreaming,
             errorMessage>>
refs == <<connectingRef, pingIntervalRef, intentionalCloseRef,
          reconnectAttemptsRef, reconnectTimeoutRef, connParamsRef>>
vars == <<ws, socket, session, refs, closeDue, last, sent, scope>>

MaxTransports == IF scope = "conn" THEN MaxTransportsConn ELSE MaxTransportsErrors
Ids == 1..MaxTransports

\* A WebSocket the provider never created / has forgotten.
NoWs == [state |-> "None", timeout |-> FALSE, ping |-> FALSE, rtimer |-> 0,
         capt |-> FALSE, origin |-> "explicit", pending |-> FALSE,
         closedBy |-> "none", tafter |-> {}, rafter |-> {}]

Step(op, w, arg) == [op |-> op, ws |-> w, arg |-> arg]
Has(flag) == \E i \in 1..Len(last.arg) : last.arg[i] = flag
Flag(cond, flag) == IF cond THEN <<flag>> ELSE <<>>

\* the step follows the disconnect that closed w, in the same or the next task
AfterDisconnect(w) ==
    \/ last.op = "disconnect" /\ last.ws = w
    \/ last.op = "error" /\ last.ws = w /\ Has("afterDisconnect")

\* ----------------------------------------------------------------- inputs
Ident(c, n) == << [c |-> c, n |-> n] >>

\* owner and repo: valid ones (a run of 100, one of each kind of safe
\* character) and invalid ones (empty, an unsafe character, a run of 101)
ParamInputs ==
    IF scope = "params"
    THEN { Ident("a", MaxParamLength),
           << [c |-> "A", n |-> 1], [c |-> "9", n |-> 1], [c |-> "_", n |-> 1],
              [c |-> ".", n |-> 1], [c |-> "-", n |-> 1] >>,
           <<>>, Ident("/", 1), Ident("a", MaxParamLength + 1) }
    ELSE { Ident("a", 1), Ident("/", 1) }

TokenInputs == IF scope = "params" THEN { None, <<"ghp_token">> } ELSE { None }

StreamFrames ==
    { <<"status:", "cloning">>, <<"stream:chunk:", "Hello ">>,
      <<"stream:chunk:", "world">>, <<"stream:chunk:">>, <<"stream:end">> }

ChatFrames ==
    { <<"repo_processed">>,
      <<"suggestions:", "[\"q1\",\"q2\"]">>, <<"suggestions:", "42">>,
      <<"suggestions:", "{bad">>, <<"suggestions:">>,
      <<"metadata:", "{\"language\":\"ts\"}">>, <<"metadata:", "{bad">>,
      <<"metadata:">> }

\* heartbeat frames, frames no rule names, and one connection-fatal frame
OtherFrames ==
    { <<"ping">>, <<"pong">>, <<"The answer.">>, <<"error:something_else">>,
      <<"error:server_busy">> }

FrameInputs ==
    IF scope \in {"conn", "params"}
    THEN { <<"repo_processed">> }
    ELSE IF scope = "stream" THEN StreamFrames \cup ChatRecoverable
    ELSE IF scope = "chat"
    THEN ChatFrames \cup OtherFrames \cup { <<"status:", "indexing">> }
    ELSE ConnectionFatal \cup ChatRecoverable \cup
         { <<"error:indexing_failed">>, <<"error:unexpected">>, <<"repo_processed">> }

\* texts for sendMessage: short, empty, exactly the limit, over the limit in
\* one run and over the limit in the second run
TextInputs ==
    IF scope = "chat"
    THEN { Ident("x", 3), <<>>, Ident("x", MAX_MESSAGE_LENGTH),
           Ident("x", MAX_MESSAGE_LENGTH + 5000),
           << [c |-> "a", n |-> MAX_MESSAGE_LENGTH - 1], [c |-> "b", n |-> 2] >> }
    ELSE { Ident("x", 3) }

\* ------------------------------------------------------------------- Init
InitCommon ==
    /\ ws = [w \in Ids |-> NoWs]
    /\ socket = 0
    /\ isConnected = FALSE
    /\ isProcessing = FALSE
    /\ lastMessage = None
    /\ suggestions = <<>>
    /\ repoMetadata = None
    /\ isReconnecting = FALSE
    /\ statusMessage = None
    /\ streamingContent = None
    /\ isStreaming = FALSE
    /\ errorMessage = None
    /\ connectingRef = FALSE
    /\ pingIntervalRef = 0
    /\ intentionalCloseRef = FALSE
    /\ reconnectAttemptsRef = 0
    /\ reconnectTimeoutRef = 0
    /\ connParamsRef = None
    /\ closeDue = 0
    /\ last = Step("init", 0, <<>>)
    /\ sent = <<>>

Init == scope = "conn" /\ InitCommon

InitErrors == scope = "errors" /\ InitCommon

InitStream == scope = "stream" /\ InitCommon

InitChat == scope = "chat" /\ InitCommon

InitParams == scope = "params" /\ InitCommon

\* ------------------------------------------------------ transport helpers
\* ws.close(): CONNECTING and OPEN become CLOSING; a no-op otherwise.  A
\* connection closed before it was established has failed ("Failing"): the
\* browser then fires error and close; one closed after it opened
\* ("Closing") ends with close alone or, if the handshake fails, with both.
CloseCallNoop(f, w, why) == f

\* ws.close() / socket.close()
CloseCall(f, w, why) ==
    IF w \in DOMAIN f /\ f[w].state \in {"Connecting", "Open"}
    THEN [f EXCEPT ![w].state = IF f[w].state = "Open" THEN "Closing" ELSE "Failing",
                   ![w].closedBy = why]
    ELSE f

\* clearPingInterval, on the transport table
clearPingInterval(f) ==
    IF pingIntervalRef # 0 THEN [f EXCEPT ![pingIntervalRef].ping = FALSE] ELSE f

\* The order of the timers in time.  A timer armed while another one with
\* no longer a delay is pending fires after it: tafter and rafter hold the
\* timers the connect-timeout and the reconnect timer of a transport wait
\* for, <<"t", v>> the connect-timeout and <<"r", v>> the reconnect timer
\* of v.
PendingBefore(f, delay) ==
    {<<"r", v>> : v \in {u \in Ids : f[u].rtimer # 0 /\ f[u].rtimer <= delay}}
    \cup (IF delay >= ConnectTimeoutMs
          THEN {<<"t", v>> : v \in {u \in Ids : f[u].timeout}} ELSE {})

Forget(f, timer) ==
    [u \in Ids |-> [f[u] EXCEPT !.tafter = @ \ {timer}, !.rafter = @ \ {timer}]]

\* The reconnect timer of v is no longer pending (fired or cleared).
DropTimer(f, v) ==
    [Forget(f, <<"r", v>>) EXCEPT ![v].rtimer = 0, ![v].rafter = {}]

\* a handler that leaves the connect-timeout armed
ClearConnectTimeoutKept(f, w) == f

\* clearTimeout(timeout), on the transport table
ClearConnectTimeout(f, w) ==
    [Forget(f, <<"t", w>>) EXCEPT ![w].timeout = FALSE, ![w].tafter = {}]

\* setTimeout(..., delay) in the onclose of w
ArmReconnectTimer(f, w, delay) ==
    [f EXCEPT ![w].rtimer = delay, ![w].rafter = PendingBefore(f, delay)]

\* clearTimeout(reconnectTimeoutRef.current), on the transport table
ClearReconnectTimer(f) ==
    IF reconnectTimeoutRef # 0 THEN DropTimer(f, reconnectTimeoutRef) ELSE f

\* The table without the WebSockets nothing can reach any more: closed, no
\* timer of theirs pending, no handle to a timer of theirs kept (rref is
\* the reconnect handle, due the transport whose close event is due).
Collect(f, rref, due) ==
    [w \in Ids |->
        IF /\ f[w].state = "Closed"
           /\ ~f[w].timeout /\ ~f[w].ping /\ f[w].rtimer = 0
           /\ rref # w /\ due # w
        THEN NoWs ELSE f[w]]

CanCreate(f) == \E w \in Ids : f[w].state = "None"
Fresh(f) == CHOOSE w \in Ids : f[w].state = "None" /\ \A v \in 1..(w - 1) : f[v].state # "None"

\* a validation that checks the lengths only
ValidParamsLengthOnly(owner, repo) ==
    RunLen(owner) <= MaxParamLength /\ RunLen(repo) <= MaxParamLength

\* owner/repo pass lines 100-106
ValidParams(owner, repo) ==
    /\ SAFE_PARAM_REGEX(owner) /\ SAFE_PARAM_REGEX(repo)
    /\ RunLen(owner) <= MaxParamLength /\ RunLen(repo) <= MaxParamLength

\* line 70: disconnect marks the close that follows as caller-initiated
DisconnectIntent == TRUE

\* a reconnect policy that does not look at the intentional-close flag
ShouldReconnectAnyClose ==
    ~IsNull(connParamsRef) /\ reconnectAttemptsRef < ReconnectCap

\* line 274: the close is handed to the reconnect policy
ShouldReconnect ==
    ~intentionalCloseRef /\ ~IsNull(connParamsRef) /\ reconnectAttemptsRef < ReconnectCap

\* a resolved reconnect that leaves the counter as it is
ThenAttemptsKept(attempts) == attempts

\* lines 281-284: the reconnect's connect resolved
ThenAttempts(attempts) == 0

\* lines 284-289: the reconnect's connect rejected
CatchReconnecting(attempts, reconnecting) ==
    IF attempts >= ReconnectCap THEN FALSE ELSE reconnecting

\* a handler that never settles the promise
SettleNot(f, w) == f

\* resolve() / reject() on the promise of transport w
Settle(f, w) == [f EXCEPT ![w].pending = FALSE]

\* ------------------------------------------------------------- disconnect
Disconnect ==
    /\ closeDue = 0
    /\ intentionalCloseRef' = DisconnectIntent
    /\ reconnectTimeoutRef' = 0
    /\ reconnectAttemptsRef' = 0
    /\ isReconnecting' = FALSE
    /\ pingIntervalRef' = 0
    /\ LET f == clearPingInterval(ClearReconnectTimer(ws))
       IN  ws' = Collect(IF socket # 0 THEN CloseCall(f, socket, "client") ELSE f,
                         0, 0)
    /\ IF socket # 0
       THEN /\ socket' = 0
            /\ isConnected' = FALSE
            /\ isProcessing' = FALSE
            /\ lastMessage' = None
            /\ repoMetadata' = None
            /\ statusMessage' = None
            /\ streamingContent' = None
            /\ isStreaming' = FALSE
            /\ errorMessage' = None
            /\ connectingRef' = FALSE
       ELSE UNCHANGED <<socket, isConnected, isProcessing, lastMessage, repoMetadata,
                        statusMessage, streamingContent, isStreaming, errorMessage,
                        connectingRef>>
    /\ last' = Step("disconnect", socket, <<>>)
    /\ sent' = <<>>
    /\ UNCHANGED <<suggestions, connParamsRef, closeDue, scope>>

\* ---------------------------------------------------------------- connect
\* parameters remembered without the token
StoredParamsNoToken(owner, repo, token) ==
    Some([owner |-> owner, repo |-> repo, githubToken |-> None])

\* line 112: connParamsRef.current = { owner, repo, githubToken }
StoredParams(owner, repo, token) ==
    Some([owner |-> owner, repo |-> repo, githubToken |-> token])

\* a guard that holds only until the transport has opened
GuardedUntilOpen == connectingRef /\ ~isConnected

\* line 95: if (connectingRef.current) return
Guarded == connectingRef

\* The promise executor of connect (lines 108-299).  toClose is the socket
\* of the calling closure, captured whether that socket is non-null, f the
\* transport table the call starts from, rref the reconnect handle.  reconnectAttemptsRef and
\* isReconnecting are the caller's.
ConnectBody(owner, repo, token, toClose, captured, origin, f, rref) ==
    /\ CanCreate(Collect(clearPingInterval(f), rref, 0))
    /\ connectingRef' = TRUE
    /\ intentionalCloseRef' = FALSE
    /\ connParamsRef' = StoredParams(owner, repo, token)
    /\ IF captured
       THEN isConnected' = FALSE /\ isProcessing' = FALSE
       ELSE UNCHANGED <<isConnected, isProcessing>>
    /\ pingIntervalRef' = 0
    /\ LET f1 == IF captured THEN CloseCall(f, toClose, "client") ELSE f
           f2 == Collect(clearPingInterval(f1), rref, 0)
       IN  /\ ws' = [f2 EXCEPT ![Fresh(f2)] =
                        [state |-> "Connecting", timeout |-> TRUE, ping |-> FALSE,
                         rtimer |-> 0, capt |-> captured, origin |-> origin,
                         pending |-> TRUE, closedBy |-> "none",
                         tafter |-> PendingBefore(f2, ConnectTimeoutMs),
                         rafter |-> {}]]
           /\ socket' = Fresh(f2)
           /\ last' = Step(IF origin = "explicit" THEN "connect" ELSE "reconnect",
                           Fresh(f2), <<"created">>)
    /\ reconnectTimeoutRef' = rref
    /\ sent' = <<>>
    /\ UNCHANGED <<lastMessage, suggestions, repoMetadata, statusMessage,
                   streamingContent, isStreaming, errorMessage, closeDue, scope>>

\* connect(owner, repo, githubToken) called by the presentation layer
Connect(owner, repo, token) ==
    /\ closeDue = 0
    /\ IF Guarded
       THEN /\ last' = Step("connect", 0, <<"noop">>)
            /\ sent' = <<>>
            /\ UNCHANGED <<ws, socket, session, refs, closeDue, scope>>
       ELSE IF ~ValidParams(owner, repo)
       THEN /\ last' = Step("connect", 0, <<"rejected">>)
            /\ sent' = <<>>
            /\ UNCHANGED <<ws, socket, session, refs, closeDue, scope>>
       ELSE /\ ConnectBody(owner, repo, token, socket, socket # 0, "explicit", ws,
                           reconnectTimeoutRef)
            /\ UNCHANGED <<reconnectAttemptsRef, isReconnecting>>

\* ------------------------------------------------------------ sendMessage
\* a send guard that does not look at readyState
CanSendUnopened == socket # 0

\* line 303: socket && socket.readyState === WebSocket.OPEN
CanSend == socket # 0 /\ ws[socket].state = "Open"

\* a send that leaves the suggestion list as it is
KeptSuggestions == suggestions

\* line 306: setSuggestions([])
NoSuggestions == <<>>

SendMessage(message) ==
    /\ closeDue = 0
    /\ IF CanSend
       THEN /\ suggestions' = NoSuggestions
            /\ sent' = << [ws |-> socket, frame |-> Take(message, MAX_MESSAGE_LENGTH)] >>
       ELSE /\ sent' = <<>>
            /\ UNCHANGED suggestions
    /\ last' = Step("sendMessage", socket, Flag(suggestions # <<>>, "hadSuggestions"))
    /\ UNCHANGED <<ws, socket, isConnected, isProcessing, lastMessage, repoMetadata,
                   isReconnecting, statusMessage, streamingContent, isStreaming,
                   errorMessage, refs, closeDue, scope>>

\* ------------------------------------------------------ connect-timeout
\* lines 130-134
ConnectTimeout(w) ==
    /\ closeDue = 0
    /\ ws[w].timeout
    /\ ws[w].tafter = {}
    /\ connectingRef' = FALSE
    /\ LET f1 == ClearConnectTimeout(ws, w)
           f2 == Settle(f1, w)
       IN  /\ ws' = Collect(CloseCall(f2, w, "client"), reconnectTimeoutRef, 0)
           /\ isReconnecting' =
                 IF ws[w].pending /\ ws[w].origin = "reconnect"
                 THEN CatchReconnecting(reconnectAttemptsRef, isReconnecting)
                 ELSE isReconnecting
    /\ last' = Step("timeout", w, Flag(ws[w].pending, "rejected"))
    /\ sent' = <<>>
    /\ UNCHANGED <<socket, isConnected, isProcessing, lastMessage, suggestions,
                   repoMetadata, statusMessage, streamingContent, isStreaming,
                   errorMessage, pingIntervalRef, intentionalCloseRef,
                   reconnectAttemptsRef, reconnectTimeoutRef, connParamsRef,
                   closeDue, scope>>

\* ---------------------------------------------------------------- onerror
\* lines 136-142; the close event of the same task is due next
OnError(w) ==
    /\ closeDue = 0
    /\ ws[w].state \in {"Connecting", "Failing", "Open", "Closing"}
    /\ connectingRef' = FALSE
    /\ isConnected' = FALSE
    /\ isProcessing' = FALSE
    /\ ws' = Settle([ClearConnectTimeout(ws, w) EXCEPT ![w].state = "Closed"], w)
    /\ isReconnecting' =
          IF ws[w].pending /\ ws[w].origin = "reconnect"
          THEN CatchReconnecting(reconnectAttemptsRef, isReconnecting)
          ELSE isReconnecting
    /\ closeDue' = w
    /\ last' = Step("error", w, Flag(ws[w].pending, "rejected")
                                 \o Flag(AfterDisconnect(w), "afterDisconnect"))
    /\ sent' = <<>>
    /\ UNCHANGED <<socket, lastMessage, suggestions, repoMetadata, statusMessage,
                   streamingContent, isStreaming, errorMessage, pingIntervalRef,
                   intentionalCloseRef, reconnectAttemptsRef, reconnectTimeoutRef,
                   connParamsRef, scope>>

\* ----------------------------------------------------------------- onopen
\* lines 144-155
OnOpen(w) ==
    /\ closeDue = 0
    /\ ws[w].state = "Connecting"
    /\ isConnected' = TRUE
    /\ isProcessing' = TRUE
    /\ pingIntervalRef' = w
    /\ ws' = Settle([ClearConnectTimeout(ws, w) EXCEPT ![w].state = "Open",
                                                       ![w].ping = TRUE], w)
    /\ IF ws[w].pending /\ ws[w].origin = "reconnect"
       THEN /\ reconnectAttemptsRef' = ThenAttempts(reconnectAttemptsRef)
            /\ isReconnecting' = FALSE
       ELSE UNCHANGED <<reconnectAttemptsRef, isReconnecting>>
    /\ last' = Step("open", w, Flag(ws[w].pending, "opened"))
    /\ sent' = <<>>
    /\ UNCHANGED <<socket, lastMessage, suggestions, repoMetadata, statusMessage,
                   streamingContent, isStreaming, errorMessage, connectingRef,
                   intentionalCloseRef, reconnectTimeoutRef, connParamsRef,
                   closeDue, scope>>

\* ---------------------------------------------------------------- onclose
\* a close handler that leaves isProcessing as it is
ProcessingKeptAfterClose == isProcessing

\* line 269: setIsProcessing(false)
ProcessingAfterClose == FALSE

\* lines 266-292
OnClose(w) ==
    /\ \/ closeDue = w
       \/ closeDue = 0 /\ ws[w].state \in {"Open", "Closing"}
    /\ closeDue' = 0
    /\ pingIntervalRef' = 0
    /\ isConnected' = FALSE
    /\ isProcessing' = ProcessingAfterClose
    /\ socket' = 0
    /\ connectingRef' = FALSE
    /\ LET f == [clearPingInterval(ws) EXCEPT ![w].state = "Closed"]
       IN  IF ShouldReconnect
           THEN /\ isReconnecting' = TRUE
                /\ reconnectTimeoutRef' = w
                /\ ws' = Collect(ArmReconnectTimer(f, w, ReconnectDelay(reconnectAttemptsRef)),
                                 w, 0)
           ELSE /\ ws' = Collect(f, reconnectTimeoutRef, 0)
                /\ UNCHANGED <<isReconnecting, reconnectTimeoutRef>>
    /\ last' = Step("close", w, Flag(AfterDisconnect(w), "afterDisconnect"))
    /\ sent' = <<>>
    /\ UNCHANGED <<lastMessage, suggestions, repoMetadata, statusMessage,
                   streamingContent, isStreaming, errorMessage, intentionalCloseRef,
                   reconnectAttemptsRef, connParamsRef, scope>>

\* ------------------------------------------------- reconnect timer callback
\* lines 278-290, with the connect it calls and the promise reactions
ReconnectFire(w) ==
    /\ closeDue = 0
    /\ ws[w].rtimer # 0
    /\ ws[w].rafter = {}
    /\ reconnectAttemptsRef < AttemptBound
    /\ ~IsNull(connParamsRef)
    /\ LET params == connParamsRef[1]
           fired == DropTimer(ws, w)
           \* the handle of a timer that has fired is as good as none:
           \* clearTimeout on it does nothing
           rref == IF reconnectTimeoutRef = w THEN 0 ELSE reconnectTimeoutRef
           attempts == reconnectAttemptsRef + 1
       IN  IF Guarded
           THEN /\ reconnectAttemptsRef' = ThenAttempts(attempts)
                /\ isReconnecting' = FALSE
                /\ ws' = Collect(fired, rref, 0)
                /\ reconnectTimeoutRef' = rref
                /\ last' = Step("reconnect", w, <<"noop">>)
                /\ sent' = <<>>
                /\ UNCHANGED <<socket, isConnected, isProcessing, lastMessage,
                               suggestions, repoMetadata, statusMessage,
                               streamingContent, isStreaming, errorMessage,
                               connectingRef, pingIntervalRef, intentionalCloseRef,
                               connParamsRef, closeDue, scope>>
           ELSE IF ~ValidParams(params.owner, params.repo)
           THEN /\ reconnectAttemptsRef' = attempts
                /\ isReconnecting' = CatchReconnecting(attempts, isReconnecting)
                /\ ws' = Collect(fired, rref, 0)
                /\ reconnectTimeoutRef' = rref
                /\ last' = Step("reconnect", w, <<"rejected">>)
                /\ sent' = <<>>
                /\ UNCHANGED <<socket, isConnected, isProcessing, lastMessage,
                               suggestions, repoMetadata, statusMessage,
                               streamingContent, isStreaming, errorMessage,
                               connectingRef, pingIntervalRef, intentionalCloseRef,
                               connParamsRef, closeDue, scope>>
           ELSE /\ reconnectAttemptsRef' = attempts
                /\ ConnectBody(params.owner, params.repo, params.githubToken,
                               0, ws[w].capt, "reconnect", fired, rref)
                /\ UNCHANGED isReconnecting

\* ------------------------------------------------------ heartbeat interval
\* a heartbeat that does not look at readyState
PingFramesUnguarded(w) == << [ws |-> w, frame |-> Ping] >>

\* lines 149-151: if (ws.readyState === WebSocket.OPEN) ws.send('ping')
PingFrames(w) ==
    IF ws[w].state = "Open" THEN << [ws |-> w, frame |-> Ping] >> ELSE <<>>

\* lines 148-152
PingTick(w) ==
    /\ closeDue = 0
    /\ ws[w].ping
    /\ sent' = PingFrames(w)
    /\ last' = Step("heartbeat", w, <<>>)
    /\ UNCHANGED <<ws, socket, session, refs, closeDue, scope>>

\* -------------------------------------------------------------- onmessage
\* a buffer each chunk replaces instead of extending
OrEmptyReset(prev) == <<>>

\* prev || ''
OrEmpty(prev) == IF IsNull(prev) THEN <<>> ELSE prev[1]

\* the frames the bounds of the model let through
WithinBounds(data) ==
    StartsWith(data, "stream:chunk:") =>
        Len(OrEmpty(streamingContent)) + Len(Slice1(data)) <= MaxStream

\* a notification with no text
ChatErrorTextEmpty(data) == <<>>

\* lines 174, 181, 188: the text of the notification
ChatErrorText(data) ==
    IF data = <<"error:timeout">>
    THEN <<"Response timed out. Please try a simpler question.">>
    ELSE IF data = <<"error:keys_exhausted">>
    THEN <<"Service temporarily unavailable. Please try again in a few minutes.">>
    ELSE <<"Something went wrong. Please try again.">>

\* a chunk appended, with an empty result taken for no buffer
AppendedOrNull(prev, chunk) ==
    IF OrEmpty(prev) \o chunk = <<>> THEN None ELSE Some(OrEmpty(prev) \o chunk)

\* line 229: (prev || '') + chunk
Appended(prev, chunk) == Some(OrEmpty(prev) \o chunk)

\* a stream:end that publishes the buffer whatever it holds
FinalizedAlways(prev, message) == Some(OrEmpty(prev))

\* lines 235-238: if (prev) setLastMessage(prev)
Finalized(prev, message) ==
    IF OrEmpty(prev) # <<>> THEN Some(OrEmpty(prev)) ELSE message

\* a session-ready frame that leaves isProcessing as it is
ReadyProcessingKept == isProcessing

\* line 243: setIsProcessing(false)
ReadyProcessing == FALSE

\* an error:unexpected recorded as it came
UnexpectedVerbatim == <<"error:unexpected">>

\* line 203: setLastMessage('error:repo_not_found')
UnexpectedAlias == <<"error:repo_not_found">>

\* lines 157-264
OnMessage(w, data) ==
    /\ closeDue = 0
    /\ ws[w].state = "Open"
    /\ WithinBounds(data)
    /\ IF data = <<"pong">>
       THEN UNCHANGED <<ws, lastMessage, connectingRef, isProcessing, errorMessage,
                        statusMessage, isStreaming, streamingContent, repoMetadata,
                        suggestions>>
       ELSE IF data \in ConnectionFatal
       THEN /\ lastMessage' = Some(data)
            /\ connectingRef' = FALSE
            /\ isProcessing' = FALSE
            /\ ws' = CloseCall(ws, w, "fatal")
            /\ UNCHANGED <<errorMessage, statusMessage, isStreaming, streamingContent,
                           repoMetadata, suggestions>>
       ELSE IF data \in ChatRecoverable
       THEN /\ errorMessage' = Some(ChatErrorText(data))
            /\ statusMessage' = None
            /\ isStreaming' = FALSE
            /\ streamingContent' = None
            /\ UNCHANGED <<ws, lastMessage, connectingRef, isProcessing, repoMetadata,
                           suggestions>>
       ELSE IF data = <<"error:indexing_failed">>
       THEN /\ errorMessage' = Some(<<"Failed to build knowledge base. Please try again.">>)
            /\ statusMessage' = None
            /\ isProcessing' = FALSE
            /\ connectingRef' = FALSE
            /\ ws' = CloseCall(ws, w, "indexing")
            /\ UNCHANGED <<lastMessage, isStreaming, streamingContent, repoMetadata,
                           suggestions>>
       ELSE IF data = <<"error:unexpected">>
       THEN /\ lastMessage' = Some(UnexpectedAlias)
            /\ connectingRef' = FALSE
            /\ isProcessing' = FALSE
            /\ ws' = CloseCall(ws, w, "unexpected")
            /\ UNCHANGED <<errorMessage, statusMessage, isStreaming, streamingContent,
                           repoMetadata, suggestions>>
       ELSE IF StartsWith(data, "status:")
       THEN /\ statusMessage' = Some(StatusText(Slice1(data)))
            /\ UNCHANGED <<ws, lastMessage, connectingRef, isProcessing, errorMessage,
                           isStreaming, streamingContent, repoMetadata, suggestions>>
       ELSE IF StartsWith(data, "stream:chunk:")
       THEN /\ statusMessage' = None
            /\ isStreaming' = TRUE
            /\ streamingContent' = Appended(streamingContent, Slice1(data))
            /\ UNCHANGED <<ws, lastMessage, connectingRef, isProcessing, errorMessage,
                           repoMetadata, suggestions>>
       ELSE IF data = <<"stream:end">>
       THEN /\ isStreaming' = FALSE
            /\ lastMessage' = Finalized(streamingContent, lastMessage)
            /\ streamingContent' = None
            /\ UNCHANGED <<ws, connectingRef, isProcessing, errorMessage, statusMessage,
                           repoMetadata, suggestions>>
       ELSE IF data = <<"repo_processed">>
       THEN /\ isProcessing' = ReadyProcessing
            /\ statusMessage' = None
            /\ connectingRef' = FALSE
            /\ lastMessage' = Some(<<"repo_processed">>)
            /\ UNCHANGED <<ws, errorMessage, isStreaming, streamingContent, repoMetadata,
                           suggestions>>
       ELSE IF StartsWith(data, "metadata:")
       THEN /\ repoMetadata' = IF JsonParse(Slice1(data)).ok
                               THEN Some(JsonParse(Slice1(data)).value) ELSE repoMetadata
            /\ UNCHANGED <<ws, lastMessage, connectingRef, isProcessing, errorMessage,
                           statusMessage, isStreaming, streamingContent, suggestions>>
       ELSE IF StartsWith(data, "suggestions:")
       THEN /\ suggestions' = IF JsonParse(Slice1(data)).ok /\ JsonParse(Slice1(data)).array
                              THEN JsonParse(Slice1(data)).value ELSE suggestions
            /\ UNCHANGED <<ws, lastMessage, connectingRef, isProcessing, errorMessage,
                           statusMessage, isStreaming, streamingContent, repoMetadata>>
       ELSE /\ lastMessage' = Some(data)
            /\ UNCHANGED <<ws, connectingRef, isProcessing, errorMessage, statusMessage,
                           isStreaming, streamingContent, repoMetadata, suggestions>>
    /\ last' = Step("message", w, data)
    /\ sent' = <<>>
    /\ UNCHANGED <<socket, isConnected, isReconnecting, pingIntervalRef,
                   intentionalCloseRef, reconnectAttemptsRef, reconnectTimeoutRef,
                   connParamsRef, closeDue, scope>>

\* ------------------------------------------------------------------- Next
Next ==
    \/ \E o \in ParamInputs, r \in ParamInputs, t \in TokenInputs : Connect(o, r, t)
    \/ Disconnect
    \/ \E m \in TextInputs : SendMessage(m)
    \/ \E w \in Ids : OnOpen(w)
    \/ \E w \in Ids, data \in FrameInputs : OnMessage(w, data)
    \/ \E w \in Ids : OnError(w)
    \/ \E w \in Ids : OnClose(w)
    \/ \E w \in Ids : ConnectTimeout(w)
    \/ \E w \in Ids : PingTick(w)
    \/ \E w \in Ids : ReconnectFire(w)

Spec == Init /\ [][Next]_vars

SpecErrors == InitErrors /\ [][Next]_vars

SpecStream == InitStream /\ [][Next]_vars

SpecChat == InitChat /\ [][Next]_vars

SpecParams == InitParams /\ [][Next]_vars

\* ----------------------------------------------------------------- claims
Live(w) == ws[w].state \in {"Connecting", "Open"}
TimerPending(w) == ws[w].timeout \/ ws[w].ping \/ ws[w].rtimer # 0

\* C1: in every reachable state at most one transport created by the
\* manager is in the Connecting or Open state.
C1_AtMostOneLiveTransport == Cardinality({w \in Ids : Live(w)}) <= 1

\* C2: a connect call made while the attempt of an earlier accepted connect
\* has not settled (its transport is still connecting, neither opened, errored
\* nor timed out) creates no transport and changes no state.
SameTransport(w) ==
    \/ ws'[w].state = ws[w].state
    \/ (ws[w].state = "Closed" /\ ws'[w].state = "None")
InFlight == \E w \in Ids : ws[w].state = "Connecting" /\ ws[w].timeout /\ ws[w].pending
C2_SecondConnectIsNoop ==
    [][(last'.op \in {"connect", "reconnect"} /\ InFlight)
          => /\ \A w \in Ids : SameTransport(w)
             /\ UNCHANGED <<socket, isConnected, isProcessing, connectingRef,
                            pingIntervalRef, intentionalCloseRef, connParamsRef>>]_vars

\* C3: a connection-fatal frame on an open transport leaves isProcessing
\* false and the transport closing, and the close event that follows arms no
\* reconnect timer.
C3_FatalFrameNoReconnect ==
    /\ (last.op = "message" /\ last.arg \in ConnectionFatal)
          => (~isProcessing /\ ws[last.ws].state = "Closing")
    /\ \A w \in Ids : ws[w].closedBy = "fatal" => ws[w].rtimer = 0

\* C4: after error:indexing_failed or error:unexpected the transport is
\* closed and not auto-retried: the close event that follows arms no reconnect
\* timer.
C4_IndexingFailedNoReconnect ==
    /\ (last.op = "message"
        /\ last.arg \in {<<"error:indexing_failed">>, <<"error:unexpected">>})
          => ws[last.ws].state = "Closing"
    /\ \A w \in Ids : ws[w].closedBy \in {"indexing", "unexpected"} => ws[w].rtimer = 0

\* C5: a close arms the reconnect timer with 1000 ms when the counter is 0,
\* 2000 ms when it is 1, 4000 ms when it is 2, and arms none when it is 3;
\* the counter advances by one with every attempt a timer makes, so that
\* consecutive failed attempts get 1000, 2000, 4000 ms and then nothing.
Armed(w) == ws[w].rtimer = 0 /\ ws'[w].rtimer # 0
C5_BackoffSchedule ==
    [][/\ \A w \in Ids : Armed(w) =>
             /\ last'.op = "close" /\ last'.ws = w
             /\ \/ reconnectAttemptsRef = 0 /\ ws'[w].rtimer = 1000
                \/ reconnectAttemptsRef = 1 /\ ws'[w].rtimer = 2000
                \/ reconnectAttemptsRef = 2 /\ ws'[w].rtimer = 4000
       /\ (last'.op = "close" /\ reconnectAttemptsRef >= 3)
             => \A w \in Ids : ~Armed(w)
       /\ (last'.op = "close" /\ reconnectAttemptsRef < 3 /\ ~intentionalCloseRef
           /\ ~IsNull(connParamsRef))
             => Armed(last'.ws)
       /\ (last'.op = "reconnect" /\ Has("created")')
             => reconnectAttemptsRef' = reconnectAttemptsRef + 1]_vars
C5_Witness ==
    /\ last.op = "close" /\ ~Has("afterDisconnect")
    /\ reconnectAttemptsRef = 3 /\ ~intentionalCloseRef
    /\ \A w \in Ids : ws[w].rtimer = 0

\* C6: the reconnect attempt counter is in 0..3 in every reachable state.
C6_AttemptsWithinCap == reconnectAttemptsRef \in 0..ReconnectCap

\* C7 as stated: whenever a transport opens, by an explicit connect or by the
\* reconnect timer, the counter is 0 and isReconnecting is false afterwards.
C7_AnyOpenResets ==
    last.op = "open" => (reconnectAttemptsRef = 0 /\ ~isReconnecting)
\* C7 as amended: whenever a transport created by the connect of a reconnect
\* timer opens, the counter is 0 and isReconnecting is false once the open
\* has been processed.
C7_ReconnectOpenResets ==
    (last.op = "open" /\ ws[last.ws].origin = "reconnect")
        => (reconnectAttemptsRef = 0 /\ ~isReconnecting)
C7_Witness ==
    last.op = "open" /\ ws[last.ws].origin = "reconnect" /\ Has("opened")

\* C8: the close event delivered right after the disconnect() that closed
\* its transport arms no reconnect timer and creates no transport.
C8_CloseAfterDisconnect ==
    [][(last'.op = "close" /\ Has("afterDisconnect")')
          => /\ \A w \in Ids : ~Armed(w)
             /\ \A w \in Ids : ws'[w].state = "Connecting" => ws[w].state = "Connecting"
             /\ reconnectTimeoutRef' = reconnectTimeoutRef
             /\ isReconnecting' = isReconnecting]_vars
C8_Witness == last.op = "close" /\ Has("afterDisconnect")

\* C9: right after disconnect() returns no connect-timeout, no heartbeat
\* timer and no reconnect timer is pending.
C9_DisconnectCancelsTimers ==
    last.op = "disconnect" => \A w \in Ids : ~TimerPending(w)

\* C10: after disconnect(), from any reachable state, every session field
\* has its neutral value and the reconnect counter is 0.
C10_DisconnectResetsSession ==
    last.op = "disconnect" =>
        /\ ~isConnected /\ ~isProcessing /\ ~isStreaming /\ ~isReconnecting
        /\ IsNull(lastMessage) /\ IsNull(repoMetadata) /\ IsNull(statusMessage)
        /\ IsNull(streamingContent)
        /\ reconnectAttemptsRef = 0

\* C11: in every reachable state (between events) a heartbeat timer is
\* pending for a transport if and only if that transport is Open: no timer
\* while Connecting, Closing or Closed, and no open transport without one.
C11_HeartbeatIffOpen ==
    closeDue = 0 => \A w \in Ids : ws[w].ping <=> ws[w].state = "Open"

\* C12: starting from an empty buffer, chunk frames, with status frames
\* among them, followed by stream:end leave lastMessage equal to the chunks
\* concatenated in arrival order, isStreaming false and the buffer empty.
\* Stated frame by frame: a chunk appends its text to the buffer, a status
\* frame leaves the buffer and lastMessage alone, and stream:end on a
\* non-empty buffer moves the buffer to lastMessage.
Buffer == IF IsNull(streamingContent) THEN <<>> ELSE streamingContent[1]
Received(prefix) ==
    last'.op = "message" /\ Len(last'.arg) >= 1 /\ last'.arg[1] = prefix
C12_StreamConcatenation ==
    [][/\ Received("stream:chunk:") =>
             /\ streamingContent' = <<Buffer \o Tail(last'.arg)>>
             /\ isStreaming'
             /\ lastMessage' = lastMessage
       /\ Received("status:") =>
             UNCHANGED <<streamingContent, isStreaming, lastMessage>>
       /\ (Received("stream:end") /\ Buffer # <<>>) =>
             /\ lastMessage' = <<Buffer>>
             /\ ~isStreaming'
             /\ streamingContent' = <<>>]_vars
C12_Witness ==
    /\ last.op = "message" /\ last.arg = <<"stream:end">>
    /\ lastMessage = << <<"Hello ", "world">> >>
    /\ ~isStreaming /\ IsNull(streamingContent)

\* C13: after any close event of a transport the stream buffer is empty and
\* isStreaming is false.
C13_CloseClearsStream ==
    last.op = "close" => (IsNull(streamingContent) /\ ~isStreaming)

\* C14: for every text passed to sendMessage while the transport is open,
\* the frame transmitted is exactly the first min(length(text), 10000)
\* characters of the text.
Min(a, b) == IF a <= b THEN a ELSE b
PrefixOf(f, m) ==
    /\ Len(f) <= Len(m)
    /\ \A i \in 1..Len(f) :
          /\ f[i].c = m[i].c
          /\ IF i < Len(f) THEN f[i].n = m[i].n ELSE f[i].n \in 1..m[i].n
C14_SendTruncates ==
    [][\A m \in TextInputs :
          (SendMessage(m) /\ socket # 0 /\ ws[socket].state = "Open") =>
              /\ Len(sent') = 1
              /\ sent'[1].ws = socket
              /\ PrefixOf(sent'[1].frame, m)
              /\ RunLen(sent'[1].frame) = Min(RunLen(m), 10000)]_vars
C14_Witness ==
    /\ last.op = "sendMessage" /\ Len(sent) = 1
    /\ sent[1].frame = << [c |-> "a", n |-> 9999], [c |-> "b", n |-> 1] >>

\* C15: whenever sendMessage transmits a frame the suggestion list is empty
\* afterwards, whatever it held before.
C15_SendClearsSuggestions ==
    (last.op = "sendMessage" /\ sent # <<>>) => suggestions = <<>>
C15_Witness ==
    last.op = "sendMessage" /\ sent # <<>> /\ Has("hadSuggestions")

\* C16: sendMessage called with no transport, or with a transport that is
\* not Open, transmits no frame and leaves every state field unchanged.
C16_SendWhenNotOpen ==
    [][(last'.op = "sendMessage" /\ ~(socket # 0 /\ ws[socket].state = "Open"))
          => /\ sent' = <<>>
             /\ UNCHANGED <<ws, socket, session, refs>>]_vars
C16_Witness ==
    /\ last.op = "sendMessage" /\ Has("hadSuggestions")
    /\ socket # 0 /\ ws[socket].state = "Connecting"
    /\ sent = <<>> /\ suggestions # <<>>

\* C17: in every state, also while another connection attempt is in flight,
\* a connect call whose owner or repo is empty, holds a character outside
\* [A-Za-z0-9_.-] or is longer than 100 characters is rejected.
InvalidParam(p) ==
    \/ RunLen(p) = 0
    \/ RunLen(p) > 100
    \/ \E i \in 1..Len(p) : p[i].c \notin Lower \cup Upper \cup Digit \cup {"_", ".", "-"}
C17_InvalidConnectRejected ==
    [][\A o \in ParamInputs, r \in ParamInputs, t \in TokenInputs :
          (Connect(o, r, t) /\ (InvalidParam(o) \/ InvalidParam(r)))
              => last'.arg = <<"rejected">>]_vars

\* C18: a connect call that fails owner/repo validation creates no transport
\* and leaves all state unchanged: transports, timers, refs and every
\* session field keep their values.
C18_InvalidConnectChangesNothing ==
    [][\A o \in ParamInputs, r \in ParamInputs, t \in TokenInputs :
          (Connect(o, r, t) /\ (InvalidParam(o) \/ InvalidParam(r)))
              => UNCHANGED <<ws, socket, session, refs>>]_vars
C18_Witness ==
    /\ last.op = "connect" /\ Has("rejected")
    /\ socket # 0 /\ ws[socket].state = "Open" /\ ws[socket].ping
    /\ ~IsNull(connParamsRef)

\* C19: a connect call with valid owner and repo that the re-entrancy guard
\* does not suppress creates exactly one new transport, having closed every
\* prior live transport and cleared every heartbeat timer.
Created == {w \in Ids : ws'[w].state = "Connecting" /\ ws[w].state # "Connecting"}
C19_ConnectReplacesTransport ==
    [][(last'.op = "connect" /\ Has("created")')
          => /\ Cardinality(Created) = 1
             /\ \A w \in Ids : Live(w) => ws'[w].state \in {"Closing", "Failing"}
             /\ \A w \in Ids : ~ws'[w].ping]_vars

\* C20: a metadata: or suggestions: frame whose remainder is not valid JSON
\* leaves every state field as it was, and the transport stays open.
Malformed ==
    { <<"metadata:", "{bad">>, <<"metadata:">>,
      <<"suggestions:", "{bad">>, <<"suggestions:">> }
C20_MalformedJsonIgnored ==
    [][(last'.op = "message" /\ last'.arg \in Malformed)
          => /\ UNCHANGED <<ws, socket, session, refs>>
             /\ ws'[last'.ws].state = "Open"]_vars
C20_Witness ==
    /\ last.op = "message" /\ last.arg \in Malformed
    /\ ~IsNull(repoMetadata) /\ suggestions # <<>>
    /\ ws[last.ws].state = "Open"

\* C21: each of the four chat-recoverable frames sets a non-empty
\* errorMessage, clears statusMessage, isStreaming and the stream buffer and
\* changes nothing else: the transport stays open, isConnected, isProcessing
\* and all timers keep their values, no reconnect is armed; and a sendMessage
\* that follows on the manager's transport transmits.
Recoverable ==
    { <<"error:timeout">>, <<"error:keys_exhausted">>,
      <<"error:generation_failed">>, <<"error:retrieval_failed">> }
C21_ChatErrorKeepsConnection ==
    [][/\ (last'.op = "message" /\ last'.arg \in Recoverable) =>
             /\ errorMessage' # <<>> /\ errorMessage'[1] # <<>>
             /\ statusMessage' = <<>> /\ ~isStreaming' /\ streamingContent' = <<>>
             /\ ws'[last'.ws].state = "Open"
             /\ UNCHANGED <<ws, socket, isConnected, isProcessing, isReconnecting,
                            lastMessage, suggestions, repoMetadata, refs>>
       /\ (last.op = "message" /\ last.arg \in Recoverable /\ socket = last.ws
           /\ last'.op = "sendMessage") => sent' # <<>>]_vars
C21_Witness ==
    /\ last.op = "message" /\ last.arg = <<"error:retrieval_failed">>
    /\ errorMessage = << <<"Something went wrong. Please try again.">> >>
    /\ socket = last.ws /\ ws[socket].state = "Open" /\ ws[socket].ping
    /\ isConnected /\ isProcessing

\* C22: receiving the frame "ping" or the frame "pong" changes no state
\* field.
C22_HeartbeatFramesIgnored ==
    [][(last'.op = "message" /\ last'.arg \in {<<"ping">>, <<"pong">>})
          => UNCHANGED <<ws, socket, session, refs>>]_vars

\* C23: a frame that no rule names is recorded as lastMessage, and
\* isProcessing is false afterwards.
Unnamed == { <<"The answer.">>, <<"error:something_else">> }
C23_DefaultFrameFinalizes ==
    (last.op = "message" /\ last.arg \in Unnamed)
        => (lastMessage = <<last.arg>> /\ ~isProcessing)

\* C24: once three consecutive reconnect attempts have failed the client is
\* settled.  The counter is 3 when the timer has made three attempts since
\* the last successful open or disconnect; when none of the transports is
\* connecting, open or closing any more, all three have failed, and then
\* isReconnecting is false and no reconnect timer or connect-timeout is
\* pending.
AllAttemptsOver ==
    /\ closeDue = 0
    /\ \A w \in Ids : ws[w].state \in {"None", "Closed"}
C24_SettledAfterThreeFailures ==
    (reconnectAttemptsRef = 3 /\ AllAttemptsOver)
        => /\ ~isReconnecting
           /\ \A w \in Ids : ws[w].rtimer = 0 /\ ~ws[w].timeout

\* C25: every frame the client transmits is the literal "ping" (sent by the
\* heartbeat) or a user text of at most 10,000 characters (sent by
\* sendMessage), and it is transmitted on a transport that is Open at that
\* moment; a heartbeat firing on a transport that is not Open sends nothing.
C25_OutboundFrames ==
    /\ \A i \in 1..Len(sent) :
          /\ ws[sent[i].ws].state = "Open"
          /\ \/ /\ last.op = "heartbeat"
                /\ sent[i].frame = << [c |-> "p", n |-> 1], [c |-> "i", n |-> 1],
                                      [c |-> "n", n |-> 1], [c |-> "g", n |-> 1] >>
             \/ /\ last.op = "sendMessage"
                /\ RunLen(sent[i].frame) <= 10000
    /\ (last.op = "heartbeat" /\ ws[last.ws].state # "Open") => sent = <<>>
C25_Witness ==
    last.op = "heartbeat" /\ ws[last.ws].state = "Closing" /\ sent = <<>>

\* C26: when the open event of an attempt has been processed its
\* connect-timeout is cancelled, isConnected and isProcessing are true, a
\* heartbeat timer is pending and the connect outcome is 'opened'; no open
\* transport has a connect-timeout pending.
C26_OpenProcessed ==
    /\ last.op = "open" =>
          /\ ~ws[last.ws].timeout
          /\ isConnected /\ isProcessing
          /\ ws[last.ws].ping
          /\ last.arg = <<"opened">>
          /\ ~ws[last.ws].pending
    /\ \A w \in Ids : ws[w].state = "Open" => ~ws[w].timeout
C26_Witness ==
    last.op = "open" /\ ws[last.ws].state = "Open" /\ ws[last.ws].origin = "explicit"

\* C27: when the connect-timeout of a transport that neither opened nor
\* errored fires, the connect outcome is rejected, the re-entrancy guard is
\* clear and the transport is closed; an explicit connect with valid
\* arguments that follows is accepted.
C27_TimeoutRejects ==
    [][/\ last'.op = "timeout" =>
             /\ last'.arg = <<"rejected">>
             /\ ~ws'[last'.ws].pending
             /\ ~connectingRef'
             /\ ws'[last'.ws].state = "Failing"
       /\ \A o \in ParamInputs, r \in ParamInputs, t \in TokenInputs :
             (last.op = "timeout" /\ Connect(o, r, t)
              /\ ~InvalidParam(o) /\ ~InvalidParam(r))
                 => last'.arg = <<"created">>]_vars
C27_Witness ==
    /\ last.op = "timeout" /\ Has("rejected")
    /\ ws[last.ws].state = "Failing" /\ ws[last.ws].closedBy = "client"
    /\ ~connectingRef

\* C28: a transport error before open rejects the connect outcome, leaves
\* isConnected and isProcessing false, cancels the connect-timeout of the
\* attempt and clears the re-entrancy guard.
C28_ErrorBeforeOpen ==
    [][(last'.op = "error" /\ ws[last'.ws].state \in {"Connecting", "Failing"})
          => /\ ws[last'.ws].pending => Has("rejected")'
             /\ ~ws'[last'.ws].pending
             /\ ~isConnected' /\ ~isProcessing'
             /\ ~ws'[last'.ws].timeout
             /\ ~connectingRef']_vars
C28_Witness ==
    /\ last.op = "error" /\ last.arg = <<"rejected">>
    /\ closeDue = last.ws /\ ~connectingRef

\* C29: after any close event of a transport has been processed no heartbeat
\* timer is pending, isConnected is false and the re-entrancy guard is
\* clear; that close arms a reconnect timer only if the close was not
\* caller-initiated, connection parameters are stored and the counter is
\* below 3.
C29_CloseProcessed ==
    [][last'.op = "close" =>
          /\ \A w \in Ids : ~ws'[w].ping
          /\ ~isConnected' /\ ~connectingRef'
          /\ Armed(last'.ws) =>
                /\ ~intentionalCloseRef
                /\ ~IsNull(connParamsRef)
                /\ reconnectAttemptsRef < 3]_vars

\* C30: each of the six connection-fatal frames is recorded verbatim as
\* lastMessage, and error:unexpected leaves the state that
\* error:repo_not_found leaves from the same prior state: lastMessage
\* 'error:repo_not_found', isProcessing false, guard clear, transport closing,
\* everything else as it was.
FatalEffect(w, recorded) ==
    /\ lastMessage' = <<recorded>>
    /\ ~isProcessing' /\ ~connectingRef'
    /\ ws'[w].state = "Closing"
    /\ [ws' EXCEPT ![w].closedBy = "none"]
          = [ws EXCEPT ![w].state = "Closing", ![w].closedBy = "none"]
    /\ UNCHANGED <<socket, isConnected, suggestions, repoMetadata, isReconnecting,
                   statusMessage, streamingContent, isStreaming, errorMessage,
                   pingIntervalRef, intentionalCloseRef, reconnectAttemptsRef,
                   reconnectTimeoutRef, connParamsRef>>
SixFatal ==
    { <<"error:repo_too_large">>, <<"error:repo_not_found">>,
      <<"error:repo_private">>, <<"error:repo_not_installed">>,
      <<"error:rate_limited">>, <<"error:server_busy">> }
C30_UnexpectedIsNotFound ==
    [][/\ (last'.op = "message" /\ last'.arg \in SixFatal)
             => FatalEffect(last'.ws, last'.arg)
       /\ (last'.op = "message" /\ last'.arg = <<"error:unexpected">>)
             => FatalEffect(last'.ws, <<"error:repo_not_found">>)]_vars
C30_Witness ==
    /\ last.op = "message" /\ last.arg = <<"error:unexpected">>
    /\ lastMessage = << <<"error:repo_not_found">> >>
    /\ ws[last.ws].state = "Closing" /\ ~isProcessing /\ ~connectingRef

\* C31: repo_processed received on an open transport sets isProcessing
\* false, clears statusMessage, sets lastMessage to 'repo_processed' and
\* leaves the transport open and isConnected as it was.
C31_RepoProcessed ==
    [][(last'.op = "message" /\ last'.arg = <<"repo_processed">>) =>
          /\ ~isProcessing'
          /\ statusMessage' = <<>>
          /\ lastMessage' = << <<"repo_processed">> >>
          /\ ws'[last'.ws].state = "Open"
          /\ UNCHANGED <<ws, socket, isConnected>>]_vars
C31_Witness ==
    /\ last.op = "message" /\ last.arg = <<"repo_processed">>
    /\ lastMessage = << <<"repo_processed">> >>
    /\ isConnected /\ ~isProcessing /\ IsNull(statusMessage)
    /\ ws[last.ws].state = "Open" /\ ws[last.ws].ping

\* C32: stream:end received while the stream buffer is empty (no chunk, or
\* only empty chunks) leaves lastMessage unchanged, isStreaming false and
\* the buffer empty; a stream:end never publishes an empty final message.
C32_EmptyStreamEnd ==
    [][/\ (Received("stream:end") /\ Buffer = <<>>) =>
             /\ lastMessage' = lastMessage
             /\ ~isStreaming'
             /\ streamingContent' = <<>>
       /\ (Received("stream:end") /\ lastMessage' # lastMessage) =>
             lastMessage' # << <<>> >>]_vars
C32_Witness ==
    /\ last.op = "message" /\ last.arg = <<"stream:end">>
    /\ IsNull(lastMessage) /\ ~isStreaming /\ IsNull(streamingContent)
    /\ ~IsNull(statusMessage)

\* C33: the connect a reconnect timer issues uses the owner, repo and token
\* of the most recent connect call that passed the guard and the validation.
\* The stored parameters are those of every accepted connect call, a
\* rejected or suppressed call leaves them alone, and so does every other
\* step: the reconnect, which stores the parameters it connects with,
\* connects with the stored ones.
C33_ReconnectUsesStoredParams ==
    [][/\ \A o \in ParamInputs, r \in ParamInputs, t \in TokenInputs :
             (Connect(o, r, t) /\ last'.arg = <<"created">>)
                 => connParamsRef' = << [owner |-> o, repo |-> r, githubToken |-> t] >>
       /\ (last'.op = "connect" /\ last'.arg # <<"created">>)
             => UNCHANGED connParamsRef
       /\ last'.op # "connect" => UNCHANGED connParamsRef]_vars
C33_Witness ==
    /\ last.op = "reconnect" /\ Has("created")
    /\ connParamsRef = << [owner |-> Ident("a", 100), repo |-> Ident("a", 100),
                            githubToken |-> <<"ghp_token">>] >>

\* C34: the close event of a superseded transport (closed by the client,
\* with another transport live) does not affect the newer connection: it
\* arms no reconnect timer, cancels no heartbeat timer of another transport,
\* leaves the re-entrancy guard alone and, while another transport is open,
\* leaves isConnected alone.
Superseded(w) ==
    /\ ws[w].closedBy = "client"
    /\ \E v \in Ids \ {w} : Live(v)
C34_StaleCloseHarmless ==
    [][\A w \in Ids :
          (last'.op = "close" /\ last'.ws = w /\ Superseded(w)) =>
              /\ ~Armed(w)
              /\ \A v \in Ids \ {w} : ws[v].ping => ws'[v].ping
              /\ connectingRef' = connectingRef
              /\ (\E v \in Ids \ {w} : ws[v].state = "Open")
                    => isConnected' = isConnected]_vars

\* C35: the re-entrancy guard is set by an accepted connect call and stays
\* set through the open event until repo_processed, a connection-terminal
\* error frame, a transport error, the connect-timeout, a close event or
\* disconnect; while it is set, also after the transport has opened, a
\* connect call creates no transport, changes nothing and is not rejected.
GuardClearing ==
    \/ last'.op \in {"error", "timeout", "close", "disconnect"}
    \/ /\ last'.op = "message"
       /\ last'.arg \in SixFatal \cup { <<"repo_processed">>,
                                         <<"error:indexing_failed">>,
                                         <<"error:unexpected">> }
C35_GuardWindow ==
    [][/\ (last'.op \in {"connect", "reconnect"} /\ Has("created")') => connectingRef'
       /\ last'.op = "open" => connectingRef' = connectingRef
       /\ (connectingRef /\ ~connectingRef') => GuardClearing
       /\ \A o \in ParamInputs, r \in ParamInputs, t \in TokenInputs :
             (connectingRef /\ Connect(o, r, t)) =>
                 /\ last'.arg = <<"noop">>
                 /\ UNCHANGED <<ws, socket, session, refs>>]_vars
C35_Witness ==
    /\ last.op = "connect" /\ Has("noop")
    /\ connectingRef /\ isProcessing /\ isConnected
    /\ socket # 0 /\ ws[socket].state = "Open"

\* C36: in every reachable state, whenever a reconnect backoff timer is
\* pending, isReconnecting is true.
C36_TimerImpliesReconnecting ==
    (\E w \in Ids : ws[w].rtimer # 0) => isReconnecting

\* C37: in every reachable state isProcessing implies isConnected.
C37_ProcessingImpliesConnected == isProcessing => isConnected
C37_Witness ==
    /\ isProcessing /\ isConnected
    /\ last.op = "open" /\ socket = last.ws

\* C38: in every reachable state isStreaming is true if and only if the
\* stream buffer is non-null.
C38_StreamingIffBuffer == isStreaming <=> ~IsNull(streamingContent)
C38_Witness ==
    /\ isStreaming /\ streamingContent = << <<>> >>
    /\ last.op = "message" /\ last.arg = <<"stream:chunk:">>
====
